---- MODULE Spec2Model ----
(***************************************************************************)
(* PDHG and LM-SPDHG (src/03_lm_spdhg.ipynb): Poisson log-likelihood plus  *)
(* total variation, reconstructed on a small 1-D image.                    *)
(*                                                                         *)
(* Numbers.  The notebook computes in float32.  A stored value is modelled *)
(* as an integer in units of 1/SCALE (fixed point), every arithmetic       *)
(* operation rounds its result to that grid (round to nearest), a finite   *)
(* result beyond MaxMag overflows to an infinity, and the IEEE special     *)
(* values are kept: PosInf, NegInf and NaN, with the IEEE rules for        *)
(* x/0, 0/0, inf-inf, 0*inf and for comparisons with NaN (always false).   *)
(* Signed zeros are not modelled: x/0 takes the sign of x.                 *)
(***************************************************************************)
EXTENDS Integers, Sequences, FiniteSets, TLC

----------------------------------------------------------------------------
(* Finite-precision arithmetic                                             *)

SCALE == 256
MaxMag == 30000

One == SCALE
PosInf == MaxMag + 1
NegInf == -(MaxMag + 1)
NaN == MaxMag + 2

Abs(n) == IF n < 0 THEN -n ELSE n
Sgn(n) == IF n < 0 THEN -1 ELSE IF n > 0 THEN 1 ELSE 0

IsNaN(a) == a = NaN
IsInf(a) == a = PosInf \/ a = NegInf
IsFinite(a) == ~IsNaN(a) /\ ~IsInf(a)

\* overflow of a finite result
Clamp(n) == IF n > MaxMag THEN PosInf ELSE IF n < -MaxMag THEN NegInf ELSE n

\* integer quotient n/d rounded to nearest (d # 0)
RDiv(n, d) == Sgn(n) * Sgn(d) * ((Abs(n) + (Abs(d) \div 2)) \div Abs(d))

\* the value of a small integer literal or count (1, 4, d, mu)
FromInt(n) == Clamp(n * SCALE)

FNeg(a) == IF IsNaN(a) THEN NaN ELSE -a

FAdd(a, b) ==
  IF IsNaN(a) \/ IsNaN(b) THEN NaN
  ELSE IF IsInf(a) /\ IsInf(b) THEN (IF a = b THEN a ELSE NaN)
  ELSE IF IsInf(a) THEN a
  ELSE IF IsInf(b) THEN b
  ELSE Clamp(a + b)

FSub(a, b) == FAdd(a, FNeg(b))

FMul(a, b) ==
  IF IsNaN(a) \/ IsNaN(b) THEN NaN
  ELSE IF IsInf(a) \/ IsInf(b)
       THEN (IF a = 0 \/ b = 0 THEN NaN
             ELSE IF Sgn(a) * Sgn(b) > 0 THEN PosInf ELSE NegInf)
  ELSE Clamp(RDiv(a * b, SCALE))

FDiv(a, b) ==
  IF IsNaN(a) \/ IsNaN(b) THEN NaN
  ELSE IF IsInf(a)
       THEN (IF IsInf(b) THEN NaN
             ELSE IF Sgn(a) * Sgn(b) >= 0 THEN PosInf ELSE NegInf)
  ELSE IF IsInf(b) THEN 0
  ELSE IF b = 0
       THEN (IF a = 0 THEN NaN ELSE IF a > 0 THEN PosInf ELSE NegInf)
  ELSE Clamp(RDiv(a * SCALE, b))

\* comparisons: false as soon as one side is NaN
FLt(a, b) == ~IsNaN(a) /\ ~IsNaN(b) /\ a < b
FEq(a, b) == ~IsNaN(a) /\ ~IsNaN(b) /\ a = b

\* floor of the square root of n >= 0, by bisection on lo..hi
RECURSIVE ISqrtIn(_, _, _)
ISqrtIn(n, lo, hi) ==
  IF lo >= hi THEN lo
  ELSE LET mid == (lo + hi + 1) \div 2
       IN IF mid * mid <= n THEN ISqrtIn(n, mid, hi) ELSE ISqrtIn(n, lo, mid - 1)

ISqrt(n) == ISqrtIn(n, 0, 46340)

\* square root of n >= 0 rounded to nearest
RSqrt(n) == LET r == ISqrt(n) IN IF n - r * r > r THEN r + 1 ELSE r

RECURSIVE SumSq(_)
SumSq(g) == IF g = <<>> THEN 0 ELSE Head(g) * Head(g) + SumSq(Tail(g))

\* sqrt(g[1]**2 + ... + g[m]**2 + b): squares are accumulated exactly and the
\* square root is rounded once (the relative precision of a float keeps
\* sqrt(a**2) == abs(a), which a rounded fixed-point square would lose)
FSqrtSumSq(g, b) ==
  IF (\E j \in 1..Len(g) : IsNaN(g[j])) \/ IsNaN(b) \/ b = NegInf THEN NaN
  ELSE IF (\E j \in 1..Len(g) : IsInf(g[j])) \/ b = PosInf THEN PosInf
  ELSE LET s == SumSq(g) + b * SCALE
       IN IF s < 0 THEN NaN ELSE Clamp(RSqrt(s))

----------------------------------------------------------------------------
(* Bounds of the model and the input parameters (cell 2, lines 131-155)    *)

NumVox == 2          \* voxels of the 1-D image (img_shape)
NumBins == 2         \* sinogram bins (pet_lin_op.out_shape)
MaxSubsets == 2      \* largest num_subsets drawn
MaxIterPdhg == 2     \* num_iter_pdhg
MaxEpochs == 1       \* num_iter_spdhg

Vox == 1..NumVox
Bins == 1..NumBins

img_scale == RDiv(SCALE, 10)
gamma == FDiv(One, img_scale)
rho == (9999 * SCALE) \div 10000
num_iter_pdhg == MaxIterPdhg
num_iter_spdhg == MaxEpochs

\* values num_subsets, p_g, beta and contam are drawn from
SubsetCounts == 0..MaxSubsets
PgValues == {0, SCALE \div 4, SCALE \div 2, SCALE}
BetaValues == {0, One, FromInt(10)}
ContamValues == {0, One}

\* p_a = (1 - p_g) / num_subsets
PaWrongCount(pg, n) == FDiv(FSub(One, pg), FromInt(n + 1))
p_a_of(pg, n) == FDiv(FSub(One, pg), FromInt(n))

----------------------------------------------------------------------------
(* Vectors                                                                 *)

RECURSIVE FSumInt(_)
FSumInt(s) == IF s = <<>> THEN 0 ELSE Head(s) + FSumInt(Tail(s))

RECURSIVE FSum(_)
FSum(s) == IF s = <<>> THEN 0 ELSE FAdd(Head(s), FSum(Tail(s)))

VAdd(a, b) == [j \in DOMAIN a |-> FAdd(a[j], b[j])]
VSub(a, b) == [j \in DOMAIN a |-> FSub(a[j], b[j])]
VMul(a, b) == [j \in DOMAIN a |-> FMul(a[j], b[j])]
VScale(c, a) == [j \in DOMAIN a |-> FMul(c, a[j])]
VDivBy(a, c) == [j \in DOMAIN a |-> FDiv(a[j], c)]
VFull(n, c) == [j \in 1..n |-> c]
\* difference of two gradient-shaped arrays (direction, voxel)
GSubSwapped(a, b) == [j \in DOMAIN a |-> VSub(b[j], a[j])]
GSub(a, b) == [j \in DOMAIN a |-> VSub(a[j], b[j])]

\* xp.min(tmp[tmp > 0]) raises an error when the selection tmp[tmp > 0] is empty
HasPositive(tmp) == \E j \in DOMAIN tmp : FLt(0, tmp[j])
MinPositive(tmp) ==
  LET pos == {j \in DOMAIN tmp : FLt(0, tmp[j])}
  IN tmp[CHOOSE j \in pos : \A l \in pos : tmp[j] <= tmp[l]]

\* tmp = xp.where(tmp == 0, xp.min(tmp[tmp > 0]), tmp)
ReplaceZeros(tmp) == [j \in DOMAIN tmp |-> IF FEq(tmp[j], 0) THEN MinPositive(tmp) ELSE tmp[j]]

----------------------------------------------------------------------------
(* Linear operators (parallelproj, consumed through apply and adjoint)      *)

OperatorNames == {"identity", "dense", "blind"}

\* system matrix entry of bin b and voxel v: an identity-like operator, a dense
\* one, and one in which the last voxel is seen by no bin and the last bin
\* crosses no voxel
OpWeight(op, b, v) ==
  IF op = "identity" THEN (IF b = v THEN One ELSE 0)
  ELSE IF op = "dense" THEN FromInt(1 + ((b + v) % 2))
  ELSE (IF v = NumVox \/ b = NumBins THEN 0 ELSE One)

\* pet_lin_op(x) and pet_lin_op.adjoint(y)
Apply(op, x) == [b \in Bins |-> FSum([v \in Vox |-> FMul(OpWeight(op, b, v), x[v])])]
Adjoint(op, yv) == [v \in Vox |-> FSum([b \in Bins |-> FMul(OpWeight(op, b, v), yv[b])])]

\* op_G = FiniteForwardDifference(in_shape): one direction for a 1-D image
Grad(x) == <<[v \in Vox |-> IF v < NumVox THEN FSub(x[v + 1], x[v]) ELSE 0]>>
GradAdjoint(wv) ==
  LET g(v) == IF v >= 1 /\ v < NumVox THEN wv[1][v] ELSE 0
  IN [v \in Vox |-> FSub(g(v - 1), g(v))]

\* op_G.norm(...): largest singular value of the forward difference, 2*cos(pi/(2*NumVox))
op_G_norm ==
  IF NumVox = 1 THEN 0
  ELSE IF NumVox = 2 THEN RSqrt(2 * SCALE * SCALE)
  ELSE IF NumVox = 3 THEN RSqrt(3 * SCALE * SCALE)
  ELSE (185 * SCALE) \div 100

----------------------------------------------------------------------------
(* Proximal operators                                                      *)

\* 0.5 * (y_plus + 1 - xp.sqrt((y_plus - 1) ** 2 + 4 * S * d)), d an integer count
PoissonProxOtherRoot(yp, S, d) ==
  FMul(SCALE \div 2,
       FAdd(FAdd(yp, One),
            FSqrtSumSq(<<FSub(yp, One)>>, FMul(FMul(FromInt(4), S), FromInt(d)))))
PoissonProx(yp, S, d) ==
  FMul(SCALE \div 2,
       FSub(FAdd(yp, One),
            FSqrtSumSq(<<FSub(yp, One)>>, FMul(FMul(FromInt(4), S), FromInt(d)))))

\* xp.linalg.vector_norm(w_plus, axis=0) for one voxel's group
VectorNorm(g) == FSqrtSumSq(g, 0)

\* xp.where(denom < 1, xp.ones_like(denom), denom)
TVDivisorNoClamp(g) == VectorNorm(g)
TVDivisor(g) == LET denom == VectorNorm(g) IN IF FLt(denom, One) THEN One ELSE denom

\* w_plus /= divisor ; w_plus *= beta, on the group g of one voxel
TVProject(g, b) == [j \in DOMAIN g |-> FMul(FDiv(g[j], TVDivisor(g)), b)]

\* the voxel-v group of a gradient-shaped array
Group(wv, v) == [j \in DOMAIN wv |-> wv[j][v]]

\* lines 559-563 / 908-912: w_plus from w, S_G, op_G(x) and beta
TVDualUpdate(wv, Sg, gx, b) ==
  LET cand == [j \in DOMAIN wv |-> VDivBy(VAdd(wv[j], VScale(Sg, gx[j])), b)]
  IN [j \in DOMAIN wv |-> [v \in Vox |-> TVProject(Group(cand, v), b)[j]]]

----------------------------------------------------------------------------
(* State                                                                   *)

VARIABLES
  pc,               \* the notebook cell (or loop) that runs next
  op,               \* pet_lin_op: which system matrix
  d,                \* emission sinogram (counts per bin)
  contam,           \* the value of the constant contamination sinogram
  x_mlem,           \* warm start
  num_subsets, p_g, p_a, beta,
  \* PDHG
  x_pdhg, y, w, S_A, T_A, S_G, T_G, T, i, delta_z,
  \* running gradient state, used by PDHG and then again by LM-SPDHG
  z, zbar,
  \* listmode data
  events,           \* shuffled event list: the bin of every event
  subset_slices_lm, \* per subset, the (start, step) of its slice
  mu,               \* multiplicity of every event
  \* LM-SPDHG
  x_lmspdhg, ys, w_lm, S_A_lm, T_A_lm, T_lm,
  epoch,            \* epochs started (the outer loop's i + 1)
  subset_sequence,  \* this epoch's permutation of 0 .. 2*num_subsets-1
  pos,              \* inner steps done in this epoch
  k, dz, p,         \* block, increment and probability of the last inner step
  inner_steps,      \* passes of the inner loop body executed so far
  \* a single function applied on its own: its arguments and its result
  fn_args, fn_result

cfgVars == <<op, d, contam, x_mlem, num_subsets, p_g, beta>>
pdhgVars == <<x_pdhg, y, w, i, delta_z>>
pdhgStepVars == <<S_A, T_A, S_G, T_G, T>>
lmDataVars == <<events, subset_slices_lm, mu>>
lmStepVars == <<S_A_lm, T_A_lm, T_lm>>
lmVars == <<x_lmspdhg, ys, w_lm, epoch, subset_sequence, pos, k, dz, p, inner_steps>>
fnVars == <<fn_args, fn_result>>
vars == <<pc, fnVars, cfgVars, p_a, pdhgVars, pdhgStepVars, z, zbar, lmDataVars, lmStepVars, lmVars>>

\* a variable the notebook has not assigned yet
Unset == "unset"

\* warm-start images: flat, and the ramp 1, 2, ...
WarmStarts == {[v \in Vox |-> One], [v \in Vox |-> FromInt(v)]}

\* emission sinograms: d[b] = b, one count per bin, a single count in bin 1
CountImages ==
  {[b \in Bins |-> b], [b \in Bins |-> 1], [b \in Bins |-> IF b = 1 THEN 1 ELSE 0]}

EngineUnset ==
  /\ p_a = Unset
  /\ x_pdhg = Unset /\ y = Unset /\ w = Unset /\ i = 0 /\ delta_z = Unset
  /\ S_A = Unset /\ T_A = Unset /\ S_G = Unset /\ T_G = Unset /\ T = Unset
  /\ z = Unset /\ zbar = Unset
  /\ events = Unset /\ subset_slices_lm = Unset /\ mu = Unset
  /\ x_lmspdhg = Unset /\ ys = Unset /\ w_lm = Unset
  /\ S_A_lm = Unset /\ T_A_lm = Unset /\ T_lm = Unset
  /\ epoch = 0 /\ subset_sequence = Unset /\ pos = 0 /\ k = Unset /\ dz = Unset /\ p = Unset
  /\ inner_steps = 0

\* the Poisson model needs a positive expectation in every bin: a bin that
\* crosses no voxel has a positive contamination
PositiveExpectation(o, c) ==
  \A b \in Bins : FLt(0, c) \/ \E v \in Vox : FLt(0, OpWeight(o, b, v))

\* the inputs, before cell 2 derives p_a
Init ==
  /\ pc = "config"
  /\ fn_args = Unset /\ fn_result = Unset
  /\ op \in OperatorNames
  /\ d \in CountImages
  /\ contam \in ContamValues
  /\ PositiveExpectation(op, contam)
  /\ x_mlem \in WarmStarts
  /\ num_subsets \in SubsetCounts
  /\ p_g \in PgValues
  /\ beta \in BetaValues
  /\ EngineUnset

----------------------------------------------------------------------------
(* Cell 2: p_a = (1 - p_g) / num_subsets (ZeroDivisionError for 0 subsets)  *)

Configure ==
  /\ pc = "config"
  /\ IF num_subsets = 0
     THEN pc' = "error_config" /\ UNCHANGED p_a
     ELSE pc' = "pdhg_init" /\ p_a' = p_a_of(p_g, num_subsets)
  /\ UNCHANGED <<fnVars, cfgVars, pdhgVars, pdhgStepVars, z, zbar, lmDataVars, lmStepVars, lmVars>>

----------------------------------------------------------------------------
(* PDHG                                                                    *)

contamination == VFull(NumBins, contam)
dF == [b \in Bins |-> FromInt(d[b])]
\* w = xp.zeros(op_G.out_shape)
OnesGrad == <<[v \in Vox |-> One]>>
ZeroGrad == <<[v \in Vox |-> 0]>>

\* cell 9 (lines 472-482)
PdhgInit ==
  /\ pc = "pdhg_init"
  /\ x_pdhg' = x_mlem
  /\ y' = [b \in Bins |-> FSub(One, FDiv(dF[b], FAdd(Apply(op, x_mlem)[b], contamination[b])))]
  /\ w' = ZeroGrad
  /\ z' = VAdd(Adjoint(op, y'), GradAdjoint(w'))
  /\ zbar' = z'
  /\ pc' = "pdhg_steps"
  /\ UNCHANGED <<fnVars, cfgVars, p_a, i, delta_z, pdhgStepVars, lmDataVars, lmStepVars, lmVars>>

\* T = xp.where(T_A < T_G, T_A, xp.full(in_shape, T_G))
CombineMax(Ta, Tg) == [v \in Vox |-> IF FLt(Ta[v], Tg) THEN Tg ELSE Ta[v]]
Combine(Ta, Tg) == [v \in Vox |-> IF FLt(Ta[v], Tg) THEN Ta[v] ELSE Tg]

\* cell 10 (lines 496-511)
PdhgStepSizes ==
  /\ pc = "pdhg_steps"
  /\ LET tmp == Apply(op, VFull(NumVox, One))
     IN IF ~HasPositive(tmp)
        THEN pc' = "error_pdhg_steps" /\ UNCHANGED pdhgStepVars
        ELSE /\ S_A' = [b \in Bins |-> FDiv(FMul(gamma, rho), ReplaceZeros(tmp)[b])]
             /\ T_A' = [v \in Vox |->
                          FDiv(FMul(FDiv(One, gamma), rho), Adjoint(op, VFull(NumBins, One))[v])]
             /\ S_G' = FDiv(FMul(gamma, rho), op_G_norm)
             /\ T_G' = FDiv(FMul(FDiv(One, gamma), rho), op_G_norm)
             /\ T' = Combine(T_A', T_G')
             /\ pc' = "pdhg_loop"
  /\ UNCHANGED <<fnVars, cfgVars, p_a, pdhgVars, z, zbar, lmDataVars, lmStepVars, lmVars>>

\* x -= T * zbar ; x = xp.where(x < 0, 0, x)
PrimalUpdate(x, Tv, zb) ==
  LET moved == VSub(x, VMul(Tv, zb))
  IN [v \in Vox |-> IF FLt(moved[v], 0) THEN 0 ELSE moved[v]]

\* one pass of the loop body (lines 545-570)
PdhgIterate ==
  /\ pc = "pdhg_loop"
  /\ i < num_iter_pdhg
  /\ LET x1 == PrimalUpdate(x_pdhg, T, zbar)
         ybar == VAdd(y, VMul(S_A, VAdd(Apply(op, x1), contamination)))
         y_plus == [b \in Bins |-> PoissonProx(ybar[b], S_A[b], d[b])]
         w_plus == TVDualUpdate(w, S_G, Grad(x1), beta)
         dzv == VAdd(Adjoint(op, VSub(y_plus, y)),
                     GradAdjoint(GSub(w_plus, w)))
     IN /\ x_pdhg' = x1
        /\ delta_z' = dzv
        /\ y' = y_plus
        /\ w' = w_plus
        /\ z' = VAdd(z, dzv)
        /\ zbar' = VAdd(z', dzv)
  /\ i' = i + 1
  /\ pc' = "pdhg_loop"
  /\ UNCHANGED <<fnVars, cfgVars, p_a, pdhgStepVars, lmDataVars, lmStepVars, lmVars>>

\* range(num_iter_pdhg) is exhausted
PdhgDone ==
  /\ pc = "pdhg_loop"
  /\ i = num_iter_pdhg
  /\ pc' = "lm_events"
  /\ UNCHANGED <<fnVars, cfgVars, p_a, pdhgVars, pdhgStepVars, z, zbar, lmDataVars, lmStepVars, lmVars>>

----------------------------------------------------------------------------
(* Listmode data (cells 14-17)                                             *)

NumEvents == FSumInt(d)

\* convert_sinogram_to_listmode then a random shuffle (lines 609-637): any
\* ordering of the list that holds bin b exactly d[b] times
EventOrders ==
  {ev \in [1..NumEvents -> Bins] :
     \A b \in Bins : Cardinality({e \in 1..NumEvents : ev[e] = b}) = d[b]}

MakeListmode ==
  /\ pc = "lm_events"
  /\ events' \in EventOrders
  /\ pc' = "lm_setup"
  /\ UNCHANGED <<fnVars, cfgVars, p_a, pdhgVars, pdhgStepVars, z, zbar, subset_slices_lm, mu,
                 lmStepVars, lmVars>>

\* [slice(i, None, num_subsets) for i in range(num_subsets)]; entry kk is subset kk-1
StrideSlicesOffByOne(n) == [kk \in 1..n |-> [start |-> kk, step |-> n]]
StrideSlices(n) == [kk \in 1..n |-> [start |-> kk - 1, step |-> n]]

\* the (0-based) indices a slice selects in an array of length N
SliceLen(sl, N) == IF N > sl.start THEN (N - sl.start + sl.step - 1) \div sl.step ELSE 0
SliceIndices(sl, N) == [t \in 1..SliceLen(sl, N) |-> sl.start + (t - 1) * sl.step]

\* arr[sl]
Take(arr, sl) ==
  [t \in 1..SliceLen(sl, Len(arr)) |-> arr[SliceIndices(sl, Len(arr))[t] + 1]]

\* parallelproj.count_event_multiplicity(events)
Multiplicity(ev) ==
  [e \in 1..Len(ev) |-> Cardinality({f \in 1..Len(ev) : ev[f] = ev[e]})]

\* cells 16 and 17 (lines 659-728)
LmSetup ==
  /\ pc = "lm_setup"
  /\ subset_slices_lm' = StrideSlices(num_subsets)
  /\ mu' = Multiplicity(events)
  /\ pc' = "lm_init"
  /\ UNCHANGED <<fnVars, cfgVars, p_a, pdhgVars, pdhgStepVars, z, zbar, events, lmStepVars, lmVars>>

\* lm_pet_subset_linop_seq[kk-1](x) and its adjoint: the rows of the subset's events
LmApply(kk, x) ==
  LET bins == Take(events, subset_slices_lm[kk])
  IN [t \in DOMAIN bins |-> FSum([v \in Vox |-> FMul(OpWeight(op, bins[t], v), x[v])])]
LmAdjoint(kk, yv) ==
  LET bins == Take(events, subset_slices_lm[kk])
  IN [v \in Vox |-> FSum([t \in DOMAIN bins |-> FMul(OpWeight(op, bins[t], v), yv[t])])]

\* mu[sl] and contamination_list[sl]
MuOf(kk) == Take(mu, subset_slices_lm[kk])
ContamOf(kk) == [t \in DOMAIN MuOf(kk) |-> contam]

adjoint_ones == Adjoint(op, VFull(NumBins, One))

----------------------------------------------------------------------------
(* LM-SPDHG                                                                *)

\* z = adjoint_ones ; z += A_k^T((ys[k] - 1) / mu[sl]) for every k (lines 802-804)
RECURSIVE AccumulateZ(_, _, _)
AccumulateZ(z0, yss, kk) ==
  IF kk > Len(yss) THEN z0
  ELSE AccumulateZ(
         VAdd(z0, LmAdjoint(kk, [t \in DOMAIN yss[kk] |->
                                   FDiv(FSub(yss[kk][t], One), FromInt(MuOf(kk)[t]))])),
         yss, kk + 1)

\* cell 18 (lines 788-807)
LmInit ==
  /\ pc = "lm_init"
  /\ x_lmspdhg' = x_mlem
  /\ ys' = [kk \in 1..num_subsets |->
              [t \in DOMAIN MuOf(kk) |->
                 FSub(One, FDiv(FromInt(MuOf(kk)[t]),
                                FAdd(LmApply(kk, x_mlem)[t], ContamOf(kk)[t])))]]
  /\ w_lm' = ZeroGrad
  /\ z' = VAdd(AccumulateZ(adjoint_ones, ys', 1), GradAdjoint(w_lm'))
  /\ zbar' = z'
  /\ pc' = "lm_steps"
  /\ UNCHANGED <<fnVars, cfgVars, p_a, pdhgVars, pdhgStepVars, lmDataVars, lmStepVars,
                 epoch, subset_sequence, pos, k, dz, p, inner_steps>>

\* xp.min over a set of values: NaN if any of them is NaN
FMin(vals) ==
  IF NaN \in vals THEN NaN ELSE CHOOSE a \in vals : \A b \in vals : a <= b

\* T_A_lm[k] = (rho * p_a / gamma) / A_k^T(1 / mu[sl]) ; T_A_lm[-1] = T_G
SubsetPrimalSteps ==
  [kk \in 1..(num_subsets + 1) |->
     IF kk <= num_subsets
     THEN [v \in Vox |->
             FDiv(FDiv(FMul(rho, p_a), gamma),
                  LmAdjoint(kk, [t \in DOMAIN MuOf(kk) |->
                                   FDiv(One, FromInt(MuOf(kk)[t]))])[v])]
     ELSE VFull(NumVox, T_G)]

\* T_lm = xp.min(T_A_lm, axis=0)
CombineAll(Ts) == [v \in Vox |-> FMin({Ts[kk][v] : kk \in DOMAIN Ts})]

\* cell 19 (lines 829-843)
LmStepSizes ==
  /\ pc = "lm_steps"
  /\ IF \E kk \in 1..num_subsets : ~HasPositive(LmApply(kk, VFull(NumVox, One)))
     THEN pc' = "error_lm_steps" /\ UNCHANGED lmStepVars
     ELSE /\ S_A_lm' = [kk \in 1..num_subsets |->
                          LET tmp == ReplaceZeros(LmApply(kk, VFull(NumVox, One)))
                          IN [t \in DOMAIN tmp |-> FDiv(FMul(gamma, rho), tmp[t])]]
          /\ T_A_lm' = SubsetPrimalSteps
          /\ T_lm' = CombineAll(T_A_lm')
          /\ pc' = "lm_epoch"
  /\ UNCHANGED <<fnVars, cfgVars, p_a, pdhgVars, pdhgStepVars, z, zbar, lmDataVars, lmVars>>

\* np.random.permutation(2 * num_subsets)
IndexPermutationsOfBlocks(m) ==
  LET nb == (m \div 2) + 1
  IN {s \in [1..nb -> 0..(nb - 1)] : \A a, b \in 1..nb : a # b => s[a] # s[b]}
IndexPermutations(m) ==
  {s \in [1..m -> 0..(m - 1)] : \A a, b \in 1..m : a # b => s[a] # s[b]}

\* float(xp.mean((x_lmspdhg - x_pdhg)**2)) == 0.0: every difference is zero
\* (a NaN or an infinite difference makes the mean NaN or inf, not zero)
MeanSquaredDifferenceIsZero == \A v \in Vox : FSub(x_lmspdhg[v], x_pdhg[v]) = 0

\* top of the outer loop (lines 880-883): the permutation is drawn, then the
\* PSNR psnr_scale**2 / float(...) divides two Python floats, which raises
\* ZeroDivisionError when the divisor is 0.0
LmEpochStart ==
  /\ pc = "lm_epoch"
  /\ epoch < num_iter_spdhg
  /\ subset_sequence' \in IndexPermutations(2 * num_subsets)
  /\ epoch' = epoch + 1
  /\ pos' = 0
  /\ pc' = IF MeanSquaredDifferenceIsZero THEN "error_psnr" ELSE "lm_inner"
  /\ UNCHANGED <<fnVars, cfgVars, p_a, pdhgVars, pdhgStepVars, z, zbar, lmDataVars, lmStepVars,
                 x_lmspdhg, ys, w_lm, k, dz, p, inner_steps>>

\* p = p_a after a data-subset update, p = p_g after the gradient update
SelectedPSwapped(kk, n, pa, pg) == IF kk < n THEN pg ELSE pa
SelectedP(kk, n, pa, pg) == IF kk < n THEN pa ELSE pg

\* ys[k] = y_plus (entry kk of the model is subset kk-1)
StoreDualResetOthers(yss, kk, yp) ==
  [j \in DOMAIN yss |-> IF j = kk THEN yp ELSE [t \in DOMAIN yss[j] |-> 0]]
StoreDual(yss, kk, yp) == [yss EXCEPT ![kk] = yp]

\* one inner step (lines 892-918); kk is the permutation's entry, a 0-based block
LmInnerStep ==
  /\ pc = "lm_inner"
  /\ pos < Len(subset_sequence)
  /\ LET kk == subset_sequence[pos + 1]
         x1 == PrimalUpdate(x_lmspdhg, T_lm, zbar)
     IN /\ x_lmspdhg' = x1
        /\ k' = kk
        /\ IF kk < num_subsets
           THEN LET ybar == VAdd(ys[kk + 1],
                                 VMul(S_A_lm[kk + 1],
                                      VAdd(LmApply(kk + 1, x1), ContamOf(kk + 1))))
                    y_plus == [t \in DOMAIN ybar |->
                                 PoissonProx(ybar[t], S_A_lm[kk + 1][t], MuOf(kk + 1)[t])]
                IN /\ dz' = LmAdjoint(kk + 1,
                                      [t \in DOMAIN ybar |->
                                         FDiv(FSub(y_plus[t], ys[kk + 1][t]),
                                              FromInt(MuOf(kk + 1)[t]))])
                   /\ ys' = StoreDual(ys, kk + 1, y_plus)
                   /\ UNCHANGED w_lm
           ELSE LET w_plus == TVDualUpdate(w_lm, S_G, Grad(x1), beta)
                IN /\ dz' = GradAdjoint(GSub(w_plus, w_lm))
                   /\ w_lm' = w_plus
                   /\ UNCHANGED ys
        /\ p' = SelectedP(kk, num_subsets, p_a, p_g)
        /\ z' = VAdd(z, dz')
        /\ zbar' = VAdd(z', VDivBy(dz', p'))
  /\ pos' = pos + 1
  /\ inner_steps' = inner_steps + 1
  /\ pc' = IF pos' = Len(subset_sequence) THEN "lm_epoch" ELSE "lm_inner"
  /\ UNCHANGED <<fnVars, cfgVars, p_a, pdhgVars, pdhgStepVars, lmDataVars, lmStepVars,
                 epoch, subset_sequence>>

\* range(num_iter_spdhg) is exhausted
LmDone ==
  /\ pc = "lm_epoch"
  /\ epoch = num_iter_spdhg
  /\ pc' = "done"
  /\ UNCHANGED <<fnVars, cfgVars, p_a, pdhgVars, pdhgStepVars, z, zbar, lmDataVars, lmStepVars, lmVars>>

----------------------------------------------------------------------------

Next ==
  \/ Configure
  \/ PdhgInit
  \/ PdhgStepSizes
  \/ PdhgIterate
  \/ PdhgDone
  \/ MakeListmode
  \/ LmSetup
  \/ LmInit
  \/ LmStepSizes
  \/ LmEpochStart
  \/ LmInnerStep
  \/ LmDone

Spec == Init /\ [][Next]_vars

----------------------------------------------------------------------------
(* Single functions applied to inputs drawn from bounded sets               *)

\* the engine's variables while a single function is examined
EngineIdle ==
  /\ op = Unset /\ d = Unset /\ contam = Unset /\ x_mlem = Unset
  /\ num_subsets = Unset /\ p_g = Unset /\ beta = Unset
  /\ EngineUnset

engineVars == <<cfgVars, p_a, pdhgVars, pdhgStepVars, z, zbar, lmDataVars, lmStepVars, lmVars>>

\* --- Poisson prox (lines 557, 901-903) ---
MaxProxCount == 2
ProxDuals == {j * (SCALE \div 8) : j \in -16..24} \cup {One - 1, One + 1}
ProxSteps == {0, SCALE \div 2, One, FromInt(4)}

InitProx ==
  /\ pc = "prox"
  /\ fn_args \in [yv : ProxDuals, S : ProxSteps, d : 0..MaxProxCount]
  /\ fn_result = Unset
  /\ EngineIdle

ApplyProx ==
  /\ pc = "prox"
  /\ fn_result' = PoissonProx(fn_args.yv, fn_args.S, fn_args.d)
  /\ pc' = "prox_done"
  /\ UNCHANGED <<fn_args, engineVars>>

SpecProx == InitProx /\ [][ApplyProx]_vars

\* --- TV prox (lines 559-563, 908-912) on two-direction gradient arrays ---
\* per-voxel groups (direction 1, direction 2), in units of 1/4
TVGroups == {<<0, 0>>, <<2, 0>>, <<3, 4>>, <<-3, 4>>, <<12, 16>>, <<0, -40>>, <<30, 40>>, <<-60, 80>>}
TVBetas == {SCALE \div 2, One, FromInt(10)}
TVDuals == {<<0, 0>>, <<1, -2>>}

GradArray(g1, g2) ==
  <<[v \in Vox |-> IF v = 1 THEN g1[1] * (SCALE \div 4) ELSE g2[1] * (SCALE \div 4)],
    [v \in Vox |-> IF v = 1 THEN g1[2] * (SCALE \div 4) ELSE g2[2] * (SCALE \div 4)]>>

InitTV ==
  /\ pc = "tv"
  /\ \E g1, g2 \in TVGroups, w0 \in TVDuals, b \in TVBetas :
       fn_args = [w |-> GradArray(w0, w0), S_G |-> One, gx |-> GradArray(g1, g2), beta |-> b]
  /\ fn_result = Unset
  /\ EngineIdle

\* the candidate c = w + S_G * grad(x), its quotient by beta, the divisor of
\* every voxel and w_plus
ApplyTV ==
  /\ pc = "tv"
  /\ LET c == [j \in DOMAIN fn_args.w |->
                 VAdd(fn_args.w[j], VScale(fn_args.S_G, fn_args.gx[j]))]
         cand == [j \in DOMAIN c |-> VDivBy(c[j], fn_args.beta)]
     IN fn_result' = [c |-> c,
                      divisor |-> [v \in Vox |-> TVDivisor(Group(cand, v))],
                      w_plus |-> TVDualUpdate(fn_args.w, fn_args.S_G, fn_args.gx, fn_args.beta)]
  /\ pc' = "tv_done"
  /\ UNCHANGED <<fn_args, engineVars>>

SpecTV == InitTV /\ [][ApplyTV]_vars

\* --- stride slices (line 661) ---
MaxListLen == 9
MaxSlices == 10

InitSlices ==
  /\ pc = "slices"
  /\ fn_args \in [N : 0..MaxListLen, n : 1..MaxSlices]
  /\ fn_result = Unset
  /\ EngineIdle

\* the slices, and the indices each selects in a list of length N
ApplySlices ==
  /\ pc = "slices"
  /\ LET sls == StrideSlices(fn_args.n)
     IN fn_result' = [kk \in DOMAIN sls |-> SliceIndices(sls[kk], fn_args.N)]
  /\ pc' = "slices_done"
  /\ UNCHANGED <<fn_args, engineVars>>

SpecSlices == InitSlices /\ [][ApplySlices]_vars

\* --- subset probabilities (lines 152-153) ---
MaxProbSubsets == 8

InitProb ==
  /\ pc = "prob"
  /\ fn_args \in [p_g : 0..SCALE, n : 1..MaxProbSubsets]
  /\ fn_result = Unset
  /\ EngineIdle

ApplyProb ==
  /\ pc = "prob"
  /\ fn_result' = p_a_of(fn_args.p_g, fn_args.n)
  /\ pc' = "prob_done"
  /\ UNCHANGED <<fn_args, engineVars>>

SpecProb == InitProb /\ [][ApplyProb]_vars

----------------------------------------------------------------------------
(* Properties                                                              *)

FLe(a, b) == ~IsNaN(a) /\ ~IsNaN(b) /\ a <= b
Positive(a) == IsFinite(a) /\ a > 0
Near(a, b, tol) == IsFinite(a) /\ IsFinite(b) /\ Abs(a - b) <= tol

\* how far the notebook has run
PdhgStepsDone ==
  pc \in {"pdhg_loop", "lm_events", "lm_setup", "lm_init", "lm_steps", "error_lm_steps",
          "lm_epoch", "lm_inner", "done"}
PdhgStepped == PdhgStepsDone /\ i >= 1
LmStepsDone == pc \in {"lm_epoch", "lm_inner", "done"}
LmStepped == LmStepsDone /\ epoch >= 1 /\ pos >= 1
EpochEnded == pc \in {"lm_epoch", "done"} /\ epoch >= 1

\* C1: in both engines the image is element-wise non-negative after every
\* primal update, hence in every state reached after any number of
\* iterations or inner steps.
ImageNonNegative ==
  /\ PdhgStepped => \A v \in Vox : FLe(0, x_pdhg[v])
  /\ LmStepped => \A v \in Vox : FLe(0, x_lmspdhg[v])

\* C2: every LM-SPDHG inner step sets z to z + dz and zbar to the new z plus
\* dz / p, where p is the probability of the block the step updated: p_a when
\* it updated a data subset (and left w_lm alone), p_g when it updated the
\* gradient dual (and left every ys[j] alone).
ExtrapolationBySelectedProbability ==
  [][(pc = "lm_inner" /\ pos' = pos + 1) =>
       /\ z' = VAdd(z, dz')
       /\ IF k' < num_subsets
          THEN p' = p_a /\ w_lm' = w_lm /\ zbar' = VAdd(z', VDivBy(dz', p_a))
          ELSE p' = p_g /\ ys' = ys /\ zbar' = VAdd(z', VDivBy(dz', p_g))]_vars

\* a gradient-block step under unequal probabilities that moved zbar away from z
ExtrapolatedGradientStep ==
  /\ LmStepped /\ k >= num_subsets /\ p = p_g /\ p_g # p_a
  /\ \E v \in Vox : IsFinite(zbar[v]) /\ IsFinite(z[v]) /\ zbar[v] # z[v]

\* inner steps of the running epoch that updated data subset kk (0-based), and
\* those that updated the gradient block
StepsOnSubset(kk) == Cardinality({j \in 1..pos : subset_sequence[j] = kk})
StepsOnGradient == Cardinality({j \in 1..pos : subset_sequence[j] >= num_subsets})
Fraction(cnt) == FDiv(FromInt(cnt), FromInt(pos))
ProbabilitiesSumToOneHere ==
  Near(FAdd(FMul(FromInt(num_subsets), p_a), p_g), One, num_subsets)

CombinedStepIsMinimum ==
  /\ PdhgStepsDone =>
       \A v \in Vox :
          /\ T[v] \in {T_A[v], T_G}
          /\ ~FLt(T_A[v], T[v]) /\ ~FLt(T_G, T[v])
  /\ LmStepsDone =>
       /\ T_A_lm[num_subsets + 1] = VFull(NumVox, T_G)
       /\ \A v \in Vox :
            /\ T_lm[v] \in {T_A_lm[kk][v] : kk \in 1..(num_subsets + 1)}
            /\ \A kk \in 1..(num_subsets + 1) : ~FLt(T_A_lm[kk][v], T_lm[v])

\* PDHG took T_G where T_A is larger, and LM-SPDHG took a data subset's step at
\* one voxel and T_G at a voxel where that subset's step is infinite
CombinedStepMixed ==
  /\ LmStepsDone
  /\ \E v \in Vox : FLt(T_G, T_A[v]) /\ T[v] = T_G
  /\ \E v \in Vox, kk \in 1..num_subsets : FLt(T_lm[v], T_G) /\ T_lm[v] = T_A_lm[kk][v]
  /\ \E v \in Vox : T_lm[v] = T_G /\ T_A_lm[1][v] = PosInf

\* PDHG took the data step T_A where it is smaller than T_G
CombinedStepFromData ==
  PdhgStepsDone /\ \E v \in Vox : FLt(T_A[v], T_G) /\ T[v] = T_A[v]

\* C5: after the step-size calculation of either engine every entry of every
\* dual step S and of every per-operator primal step T_i is finite and
\* strictly positive (a zero row or column sum having been replaced).
StepSizesFinitePositive ==
  /\ PdhgStepsDone =>
       /\ \A b \in Bins : Positive(S_A[b])
       /\ \A v \in Vox : Positive(T_A[v])
  /\ LmStepsDone =>
       \A kk \in 1..num_subsets :
          /\ \A t \in DOMAIN S_A_lm[kk] : Positive(S_A_lm[kk][t])
          /\ \A v \in Vox : Positive(T_A_lm[kk][v])

\* the set of indices a computed slice selects
IndexSet(idx) == {idx[t] : t \in DOMAIN idx}

\* C6: for a list of N >= 0 events and n >= 1 subsets the stride slices are
\* pairwise disjoint and their union is 0 .. N-1.
SlicesPartitionEvents ==
  pc = "slices_done" =>
     /\ Len(fn_result) = fn_args.n
     /\ \A a, b \in DOMAIN fn_result :
          a # b => IndexSet(fn_result[a]) \cap IndexSet(fn_result[b]) = {}
     /\ \A a \in DOMAIN fn_result : Cardinality(IndexSet(fn_result[a])) = Len(fn_result[a])
     /\ UNION {IndexSet(fn_result[a]) : a \in DOMAIN fn_result} = 0..(fn_args.N - 1)

\* slices of a list that the stride does not divide, and of one shorter than n
SlicedUnevenList ==
  pc = "slices_done" /\ fn_args.N = 7 /\ fn_args.n = 3 /\ fn_result[1] = <<0, 3, 6>>
SlicedShortList ==
  pc = "slices_done" /\ fn_args.N = 2 /\ fn_args.n = 3 /\ fn_result[3] = <<>>

\* C7 as stated: with step S = 0 the Poisson prox returns y, for every y
\* (values above 1 included) and every count d.
ProxFixedPointAtZeroStep ==
  (pc = "prox_done" /\ fn_args.S = 0) => fn_result = fn_args.yv

\* C7 amended: with step S = 0 the Poisson prox returns min(y, 1): y itself
\* for every y <= 1, and 1 for every y > 1.
ProxAtZeroStepIsMinWithOne ==
  (pc = "prox_done" /\ fn_args.S = 0) =>
     fn_result = (IF fn_args.yv <= One THEN fn_args.yv ELSE One)

\* the prox applied with S = 0 to a dual value above 1, and to one below 1
ProxAppliedAboveOne ==
  pc = "prox_done" /\ fn_args.S = 0 /\ fn_args.yv = FromInt(2) /\ fn_args.d = 1 /\ fn_result = One
ProxAppliedBelowOne ==
  pc = "prox_done" /\ fn_args.S = 0 /\ fn_args.yv = -One /\ fn_result = -One

\* rounding allowed on a value scaled by beta and back
TVTol(b) == 2 * (b \div SCALE) + 2

\* C8: with beta > 0, a voxel group of c = w + S_G*grad(x) whose norm is at
\* most beta is returned unchanged, any other is scaled to norm beta, and the
\* divisor of every group is at least 1 (equalities up to rounding).
TVProxProjectsOntoBall ==
  pc = "tv_done" =>
     \A v \in Vox :
        LET c == Group(fn_result.c, v)
            wp == Group(fn_result.w_plus, v)
            b == fn_args.beta
        IN /\ FLe(One, fn_result.divisor[v]) /\ IsFinite(fn_result.divisor[v])
           /\ FLe(VectorNorm(c), b) =>
                \A j \in DOMAIN c : Near(wp[j], c[j], TVTol(b))
           /\ FLt(b, VectorNorm(c)) => Near(VectorNorm(wp), b, TVTol(b))

\* one voxel's group lies inside the ball, is not zero and is returned; the
\* other lies outside and is scaled; a third case is the zero group
TVProxBothCases ==
  /\ pc = "tv_done" /\ fn_args.beta = FromInt(10)
  /\ LET c1 == Group(fn_result.c, 1)
         c2 == Group(fn_result.c, NumVox)
     IN /\ FLt(0, VectorNorm(c1)) /\ FLt(VectorNorm(c1), fn_args.beta)
        /\ FLt(fn_args.beta, VectorNorm(c2))
        /\ fn_result.divisor[1] = One /\ fn_result.divisor[NumVox] > One
TVProxZeroGroup ==
  /\ pc = "tv_done"
  /\ Group(fn_result.c, 1) = <<0, 0>> /\ fn_result.divisor[1] = One
  /\ Group(fn_result.w_plus, 1) = <<0, 0>>

\* C9: n*p_a + p_g = 1 for every n >= 1 and every p_g (up to the rounding of
\* p_a, at most half a unit per subset).
ProbabilitiesSumToOne ==
  pc = "prob_done" =>
     Near(fn_args.n * fn_result + fn_args.p_g, One, (fn_args.n + 1) \div 2)

\* p_a computed for three subsets and p_g = 1/2
ProbabilityOfThreeSubsets ==
  pc = "prob_done" /\ fn_args.n = 3 /\ fn_args.p_g = SCALE \div 2
    /\ fn_result = RDiv(SCALE \div 2, 3)

\* a configuration the engine may run: a distribution with every block
\* probability positive, over slices that partition the event list
ValidProbabilities == Positive(p_a) /\ Positive(p_g) /\ ProbabilitiesSumToOneHere
SlicesOf(sls, N) == [kk \in DOMAIN sls |-> IndexSet(SliceIndices(sls[kk], N))]
ValidPartition ==
  LET sets == SlicesOf(subset_slices_lm, Len(events))
  IN /\ \A a, b \in DOMAIN sets : a # b => sets[a] \cap sets[b] = {}
     /\ UNION {sets[a] : a \in DOMAIN sets} = 0..(Len(events) - 1)

\* C10: no inner step of the LM-SPDHG loop runs under an invalid
\* configuration (it is rejected during setup).
InvalidConfigurationRejected ==
  LmStepped => (num_subsets >= 1 /\ ValidProbabilities /\ ValidPartition)

\* passes of the loops the caller asked for
PdhgLoopLeft ==
  pc \in {"lm_events", "lm_setup", "lm_init", "lm_steps", "error_lm_steps", "lm_epoch",
          "lm_inner", "error_psnr", "done"}
LmLoopLeft == pc \in {"done", "error_psnr"}

\* C11: neither loop stops early: PDHG is left after exactly num_iter_pdhg
\* primal updates, and the LM-SPDHG loop, once entered, is left after exactly
\* num_iter_spdhg * 2 * num_subsets inner steps, whatever x and the duals hold.
LoopsRunFixedCount ==
  /\ PdhgLoopLeft => i = num_iter_pdhg
  /\ LmLoopLeft => inner_steps = num_iter_spdhg * 2 * num_subsets

\* the warm start reproduces the data: A*x_mlem + contamination = d in every bin
GoldenStart ==
  \A b \in Bins : FEq(FAdd(Apply(op, x_mlem)[b], contam), FromInt(d[b]))

IsPermutationOfBlocks(sq) ==
  /\ Len(sq) = 2 * num_subsets
  /\ {sq[j] : j \in 1..Len(sq)} = 0..(2 * num_subsets - 1)

\* an epoch has been started and its inner loop is over (or was never entered)
EpochOver == pc \in {"lm_epoch", "done", "error_psnr"} /\ epoch >= 1

\* C13: every epoch walks a permutation of 0..2n-1: it executes exactly 2n
\* inner steps, step j on block subset_sequence[j], so each data subset is
\* updated once and the gradient block n times.
EpochWalksPermutation ==
  /\ epoch >= 1 => IsPermutationOfBlocks(subset_sequence)
  /\ (pc \in {"lm_inner", "lm_epoch", "done"} /\ epoch >= 1 /\ pos >= 1) =>
        k = subset_sequence[pos]
  /\ EpochOver =>
        /\ pos = 2 * num_subsets
        /\ \A kk \in 0..(num_subsets - 1) : StepsOnSubset(kk) = 1
        /\ StepsOnGradient = num_subsets

\* C14: a PDHG iteration moves the running gradient state as an inner step
\* with probability 1 would: delta_z = A^T(y_plus - y) + grad^T(w_plus - w),
\* z_new = z + delta_z, zbar = z_new + delta_z = z_new + delta_z / 1, and both
\* dual updates read the x that the primal update of the same pass produced.
PdhgIsStepWithProbabilityOne ==
  [][(pc = "pdhg_loop" /\ i' = i + 1) =>
       /\ x_pdhg' = PrimalUpdate(x_pdhg, T, zbar)
       /\ y' = [b \in Bins |->
                  PoissonProx(FAdd(y[b], FMul(S_A[b], FAdd(Apply(op, x_pdhg')[b], contam))),
                              S_A[b], d[b])]
       /\ w' = TVDualUpdate(w, S_G, Grad(x_pdhg'), beta)
       /\ delta_z' = VAdd(Adjoint(op, VSub(y', y)),
                          GradAdjoint([j \in DOMAIN w |-> VSub(w'[j], w[j])]))
       /\ z' = VAdd(z, delta_z')
       /\ zbar' = VAdd(z', delta_z')
       /\ zbar' = VAdd(z', VDivBy(delta_z', One))]_vars

\* a PDHG iteration that changed both duals and moved zbar away from z
PdhgIterationMovedBothDuals ==
  /\ pc = "pdhg_loop" /\ i >= 1 /\ beta = One
  /\ \E v \in Vox : IsFinite(w[1][v]) /\ w[1][v] # 0
  /\ \E b \in Bins : IsFinite(y[b]) /\ y[b] # 0
  /\ \E v \in Vox : IsFinite(zbar[v]) /\ IsFinite(z[v]) /\ zbar[v] # z[v]

\* C15: an inner step changes only the dual of the block it selected: on data
\* subset k it writes ys[k] alone, from that subset's step size, events,
\* multiplicities and contamination, and leaves every other ys[j] and w_lm as
\* they were; on the gradient block it writes w_lm alone. No inner step
\* changes a step size, a multiplicity, a probability or the event list.
InnerStepWritesSelectedDualOnly ==
  [][(pc = "lm_inner" /\ pos' = pos + 1) =>
       /\ IF k' < num_subsets
          THEN /\ \A j \in 1..num_subsets : j # k' + 1 => ys'[j] = ys[j]
               /\ w_lm' = w_lm
               /\ LET kk == k' + 1
                      m == Take(mu, subset_slices_lm[kk])
                      ybar == VAdd(ys[kk],
                                   VMul(S_A_lm[kk],
                                        VAdd(LmApply(kk, x_lmspdhg'),
                                             [t \in DOMAIN ys[kk] |-> contam])))
                  IN ys'[kk] = [t \in DOMAIN ys[kk] |->
                                  PoissonProx(ybar[t], S_A_lm[kk][t], m[t])]
          ELSE /\ ys' = ys
               /\ w_lm' = TVDualUpdate(w_lm, S_G, Grad(x_lmspdhg'), beta)
       /\ UNCHANGED <<S_A_lm, T_A_lm, T_lm, S_A, T_A, S_G, T_G, T, mu, events,
                      subset_slices_lm, p_a, p_g, num_subsets>>]_vars

\* the dual a subset holds after LM-SPDHG initialization
InitialDual(kk) ==
  [t \in DOMAIN MuOf(kk) |->
     FSub(One, FDiv(FromInt(MuOf(kk)[t]), FAdd(LmApply(kk, x_mlem)[t], contam)))]

\* the first inner step of an epoch updated the second of two data subsets:
\* its dual moved, the first subset's dual and w_lm are as initialized
SecondSubsetUpdatedAlone ==
  /\ pc = "lm_inner" /\ epoch = 1 /\ pos = 1 /\ num_subsets = 2 /\ k = 1
  /\ ys[1] = InitialDual(1) /\ w_lm = <<[v \in Vox |-> 0]>>
  /\ \E t \in DOMAIN ys[2] : IsFinite(ys[2][t]) /\ ys[2][t] # InitialDual(2)[t]

\* z and zbar still belong to PDHG / belong to LM-SPDHG
RunningStateOfPdhg == pc \in {"pdhg_steps", "pdhg_loop", "lm_events", "lm_setup", "lm_init"}
RunningStateOfLm ==
  pc \in {"lm_steps", "error_lm_steps", "lm_epoch", "lm_inner", "error_psnr", "done"}

\* the adjoint image of the current duals, recomputed from scratch
PdhgAdjointImage == VAdd(Adjoint(op, y), GradAdjoint(w))
LmAdjointImage == VAdd(AccumulateZ(adjoint_ones, ys, 1), GradAdjoint(w_lm))

\* rounding allowed between the accumulated and the recomputed value: a few
\* units of the grid for every pass that has added its increment
DriftTol == 4 * MaxIterPdhg

\* C16: after initialization and after every PDHG iteration z equals
\* A^T y + grad^T w, and after initialization and after every LM-SPDHG inner
\* step z equals A^T 1 + sum_i A_i^T((y_i - 1)/mu_i) + grad^T w (both up to
\* rounding), for the current duals.
RunningStateIsAdjointImage ==
  /\ RunningStateOfPdhg => \A v \in Vox : Near(z[v], PdhgAdjointImage[v], DriftTol)
  /\ RunningStateOfLm => \A v \in Vox : Near(z[v], LmAdjointImage[v], DriftTol)

\* the same with beta > 0 and both probabilities positive
RunningStateIsAdjointImageWhenDefined ==
  (beta # 0 /\ p_g # 0 /\ p_g # One) => RunningStateIsAdjointImage

\* every entry of a vector / of a gradient-shaped array is a finite number
AllFinite(a) == \A j \in DOMAIN a : IsFinite(a[j])
AllFinite2(a) == \A j \in DOMAIN a : AllFinite(a[j])

\* C17: for every beta >= 0, beta = 0 included, y, w, z and zbar hold finite
\* values after every PDHG iteration and, the probabilities being positive,
\* after every LM-SPDHG inner step.
DualsDefinedForEveryBeta ==
  /\ (pc = "pdhg_loop" /\ i >= 1) =>
        AllFinite(y) /\ AllFinite2(w) /\ AllFinite(z) /\ AllFinite(zbar)
  /\ (LmStepped /\ Positive(p_a) /\ Positive(p_g)) =>
        AllFinite2(ys) /\ AllFinite2(w_lm) /\ AllFinite(z) /\ AllFinite(zbar)

====
